---- MODULE Spec2Model ----
(***************************************************************************)
(* Model of the to-do list store of src/todo_list.py: the Task record, the *)
(* ToDoListManager operations and the JSON backing file.                   *)
(*                                                                         *)
(* Python values are records tagged by type (None, str, int); JSON values  *)
(* are a second family of tagged records, so that json.dump / json.load    *)
(* are conversions between two representations and not the identity.      *)
(***************************************************************************)
EXTENDS Integers, Sequences, FiniteSets, TLC

VARIABLES
    file,         \* content of the backing file (data_file)
    constructed,  \* TRUE iff ToDoListManager.__init__ returned normally
    tasks,        \* self.tasks of the store instance
    next_id,      \* self.next_id of the store instance
    now,          \* the wall clock read by datetime.now()
    op,           \* history: the last call made on the store and its outcome
                  \*          (again: add returned an id it had returned before,
                  \*          mark_completed found its task already completed)
    phase,        \* history: "fresh" / "loaded" since construction, then "cleared",
                  \*          "first_add", "later_add" since the last clear
    issued,       \* history: ids assigned by add_task on this instance so far
    other         \* a second store instance on the same file, not in use now:
                  \*          its tasks, next_id, phase and issued (NoStore if none)

vars == <<file, constructed, tasks, next_id, now, op, phase, issued, other>>

----------------------------------------------------------------------------
(* Bounds *)

MaxTasks == 2   \* add_task is not called on a store holding MaxTasks tasks
MaxTime == 1    \* the clock stops advancing at MaxTime

----------------------------------------------------------------------------
(* Python values: one record field per type, named after the type *)

None == [NoneType |-> TRUE]
PyStr(s) == [str |-> s]
PyInt(n) == [int |-> n]
PyBool(b) == [bool |-> b]

(* type(x).__name__ *)
type(x) == CHOOSE k \in DOMAIN x : TRUE

(* JSON values, the content of a well-formed file *)
JNull == [null |-> TRUE]
JString(s) == [string |-> s]
JNumber(n) == [number |-> n]
JArray(s) == [array |-> s]
JObject(m) == [object |-> m]

(* the kind of a JSON value *)
kind(x) == CHOOSE k \in DOMAIN x : TRUE

(* json.dump of a scalar: None -> null, str -> string, int -> number *)
json_dump(x) ==
    CASE type(x) = "NoneType" -> JNull
      [] type(x) = "str" -> JString(x.str)
      [] type(x) = "int" -> JNumber(x.int)

(* json.load of a scalar: null -> None, string -> str, number -> int *)
json_load(x) ==
    CASE kind(x) = "null" -> None
      [] kind(x) = "string" -> PyStr(x.string)
      [] kind(x) = "number" -> PyInt(x.number)

(* dict.get(key, default) on a decoded JSON object *)
dict_get(d, key, default) == IF key \in DOMAIN d THEN json_load(d[key]) ELSE default

(* datetime.now().isoformat() for clock value n *)
isoformat(n) ==
    CASE n = 0 -> "2024-01-01T00:00:00"
      [] n = 1 -> "2024-01-01T00:00:01"
      [] n = 2 -> "2024-01-01T00:00:02"
      [] n = 3 -> "2024-01-01T00:00:03"
      [] OTHER -> "2024-01-01T00:00:04"

(* str.lower() on the strings of the model *)
lower(s) ==
    CASE s = "A" -> "a"
      [] s = "ZZ" -> "zz"
      [] OTHER -> s

(* int(s): the strings for which int() succeeds, and its value *)
IntStrings == {"1", "2", "3", "4", "02"}

int(s) ==
    CASE s = "1" -> 1
      [] s = "2" -> 2
      [] s = "02" -> 2
      [] s = "3" -> 3
      [] s = "4" -> 4

----------------------------------------------------------------------------
(* Task *)

PENDING == PyStr("pending")
COMPLETED == PyStr("completed")

(* Task.__init__ that stamps completed_at at creation *)
Task_stamped(title, description, priority, due_date, t) ==
    [id |-> None,
     title |-> title,
     description |-> description,
     priority |-> priority,
     due_date |-> due_date,
     status |-> PENDING,
     created_at |-> PyStr(isoformat(t)),
     completed_at |-> PyStr(isoformat(t))]

(* Task.__init__ at clock value t *)
Task(title, description, priority, due_date, t) ==
    [id |-> None,
     title |-> title,
     description |-> description,
     priority |-> priority,
     due_date |-> due_date,
     status |-> PENDING,
     created_at |-> PyStr(isoformat(t)),
     completed_at |-> None]

(* Task.mark_completed writing a status other than "completed" *)
Task_mark_completed_done(task, t) ==
    [task EXCEPT !.status = PyStr("done"),
                 !.completed_at = PyStr(isoformat(t))]

(* Task.mark_completed that keeps the completed_at of a completed task *)
Task_mark_completed_once(task, t) ==
    IF task.status = COMPLETED /\ task.completed_at # None
    THEN task
    ELSE [task EXCEPT !.status = COMPLETED,
                      !.completed_at = PyStr(isoformat(t))]

(* Task.mark_completed that also renews created_at *)
Task_mark_completed_touch(task, t) ==
    [task EXCEPT !.status = COMPLETED,
                 !.completed_at = PyStr(isoformat(t)),
                 !.created_at = PyStr(isoformat(t))]

(* Task.mark_completed that reopens a completed task *)
Task_mark_completed_toggle(task, t) ==
    IF task.status = COMPLETED
    THEN [task EXCEPT !.status = PENDING, !.completed_at = None]
    ELSE [task EXCEPT !.status = COMPLETED,
                      !.completed_at = PyStr(isoformat(t))]

(* Task.mark_completed at clock value t *)
Task_mark_completed(task, t) ==
    [task EXCEPT !.status = COMPLETED,
                 !.completed_at = PyStr(isoformat(t))]

(* Task.to_dict followed by json.dump of the mapping *)
to_dict(task) ==
    JObject([id |-> json_dump(task.id),
             title |-> json_dump(task.title),
             description |-> json_dump(task.description),
             priority |-> json_dump(task.priority),
             due_date |-> json_dump(task.due_date),
             status |-> json_dump(task.status),
             created_at |-> json_dump(task.created_at),
             completed_at |-> json_dump(task.completed_at)])

(* Task.from_dict that does not restore completed_at *)
from_dict_nostamp(data, t) ==
    [id |-> dict_get(data, "id", None),
     title |-> json_load(data["title"]),
     description |-> dict_get(data, "description", PyStr("")),
     priority |-> dict_get(data, "priority", PyStr("medium")),
     due_date |-> dict_get(data, "due_date", None),
     status |-> dict_get(data, "status", PENDING),
     created_at |-> dict_get(data, "created_at", PyStr(isoformat(t))),
     completed_at |-> None]

(* Task.from_dict on a decoded JSON object that has a title, at clock t *)
from_dict(data, t) ==
    [id |-> dict_get(data, "id", None),
     title |-> json_load(data["title"]),
     description |-> dict_get(data, "description", PyStr("")),
     priority |-> dict_get(data, "priority", PyStr("medium")),
     due_date |-> dict_get(data, "due_date", None),
     status |-> dict_get(data, "status", PENDING),
     created_at |-> dict_get(data, "created_at", PyStr(isoformat(t))),
     completed_at |-> dict_get(data, "completed_at", None)]

----------------------------------------------------------------------------
(* The backing file *)

NoFile == [kind |-> "absent"]                 \* os.path.exists is False
Unreadable == [kind |-> "unreadable"]         \* open(..., 'r') raises
Malformed == [kind |-> "malformed"]           \* json.load raises JSONDecodeError
JsonFile(doc) == [kind |-> "json", doc |-> doc]

(* save_tasks that writes the tasks but not the counter *)
save_tasks_nocounter(nid, ts) ==
    JsonFile(JObject([tasks |-> JArray([i \in 1..Len(ts) |-> to_dict(ts[i])])]))

(* ToDoListManager.save_tasks: the content written for a store state *)
save_tasks(nid, ts) ==
    JsonFile(JObject([next_id |-> JNumber(nid),
                      tasks |-> JArray([i \in 1..Len(ts) |-> to_dict(ts[i])])]))

(* The exception Task.from_dict raises on one entry of the tasks list:     *)
(* data['title'] on a non-mapping is a TypeError, on a mapping without the *)
(* key a KeyError; "" when it returns a task.                              *)
from_dict_error(e) ==
    IF kind(e) # "object" THEN "TypeError"
    ELSE IF "title" \notin DOMAIN e.object THEN "KeyError"
    ELSE ""

(* Iterating data.get('tasks', []): the first exception raised, if any.    *)
tasks_error(d) ==
    IF "tasks" \notin DOMAIN d THEN ""
    ELSE LET l == d["tasks"] IN
         CASE kind(l) = "array" ->
                LET bad == {i \in 1..Len(l.array) : from_dict_error(l.array[i]) # ""}
                IN  IF bad = {} THEN ""
                    ELSE from_dict_error(l.array[CHOOSE i \in bad : \A k \in bad : i <= k])
           [] kind(l) = "object" -> IF DOMAIN l.object = {} THEN "" ELSE "TypeError"
           [] kind(l) = "string" -> IF l.string = "" THEN "" ELSE "TypeError"
           [] OTHER -> "TypeError"

(* The list built by the comprehension of load_tasks when nothing raises. *)
tasks_loaded(d, t) ==
    IF "tasks" \in DOMAIN d /\ kind(d["tasks"]) = "array"
    THEN [i \in 1..Len(d["tasks"].array) |-> from_dict(d["tasks"].array[i].object, t)]
    ELSE <<>>

(* load_tasks whose KeyError handler forgets to reset next_id *)
load_tasks_keep_next_id(f, t) ==
    CASE f.kind = "absent" -> [raised |-> "", tasks |-> <<>>, next_id |-> 1]
      [] f.kind = "unreadable" -> [raised |-> "PermissionError", tasks |-> <<>>, next_id |-> 1]
      [] f.kind = "malformed" -> [raised |-> "", tasks |-> <<>>, next_id |-> 1]
      [] f.kind = "json" ->
           IF kind(f.doc) # "object"
           THEN [raised |-> "AttributeError", tasks |-> <<>>, next_id |-> 1]
           ELSE LET d == f.doc.object
                    nid == IF "next_id" \in DOMAIN d THEN d["next_id"].number ELSE 1
                    err == tasks_error(d)
                IN  CASE err = "" -> [raised |-> "", tasks |-> tasks_loaded(d, t), next_id |-> nid]
                      [] err = "KeyError" -> [raised |-> "", tasks |-> <<>>, next_id |-> nid]
                      [] OTHER -> [raised |-> err, tasks |-> <<>>, next_id |-> nid]

(* ToDoListManager.__init__ with load_tasks on file content f at clock t: *)
(* raised is the exception that leaves __init__ ("" when it returns).      *)
load_tasks(f, t) ==
    CASE f.kind = "absent" -> [raised |-> "", tasks |-> <<>>, next_id |-> 1]
      [] f.kind = "unreadable" -> [raised |-> "PermissionError", tasks |-> <<>>, next_id |-> 1]
      [] f.kind = "malformed" -> [raised |-> "", tasks |-> <<>>, next_id |-> 1]
      [] f.kind = "json" ->
           IF kind(f.doc) # "object"
           THEN [raised |-> "AttributeError", tasks |-> <<>>, next_id |-> 1]
           ELSE LET d == f.doc.object
                    nid == IF "next_id" \in DOMAIN d THEN d["next_id"].number ELSE 1
                    err == tasks_error(d)
                IN  CASE err = "" -> [raised |-> "", tasks |-> tasks_loaded(d, t), next_id |-> nid]
                      [] err = "KeyError" -> [raised |-> "", tasks |-> <<>>, next_id |-> 1]
                      [] OTHER -> [raised |-> err, tasks |-> <<>>, next_id |-> nid]

----------------------------------------------------------------------------
(* ToDoListManager queries *)

(* Python truth value of an argument *)
truthy(x) ==
    CASE type(x) = "NoneType" -> FALSE
      [] type(x) = "str" -> x.str # ""
      [] type(x) = "int" -> x.int # 0

(* list_tasks(status_filter) on task list ts *)
list_tasks(ts, status_filter) ==
    IF truthy(status_filter)
    THEN SelectSeq(ts, LAMBDA task : task.status = status_filter)
    ELSE ts

(* count_tasks(status) *)
count_tasks(ts, status) ==
    IF truthy(status)
    THEN Len(SelectSeq(ts, LAMBDA task : task.status = status))
    ELSE Len(ts)

(* is_empty() *)
is_empty(ts) == Len(ts) = 0

(* get_task_by_id: position of the first task with that id, 0 for None *)
get_task_by_id(ts, task_id) ==
    LET hit == {i \in 1..Len(ts) : ts[i].id = task_id}
    IN  IF hit = {} THEN 0 ELSE CHOOSE i \in hit : \A k \in hit : i <= k

(* get_task_by_title comparing titles without lowering them *)
get_task_by_title_exact(ts, title) ==
    LET hit == {i \in 1..Len(ts) : ts[i].title.str = title}
    IN  IF hit = {} THEN 0 ELSE CHOOSE i \in hit : \A k \in hit : i <= k

(* get_task_by_title returning the last match instead of the first *)
get_task_by_title_last(ts, title) ==
    LET hit == {i \in 1..Len(ts) : lower(ts[i].title.str) = lower(title)}
    IN  IF hit = {} THEN 0 ELSE CHOOSE i \in hit : \A k \in hit : i >= k

(* get_task_by_title that passes over completed tasks *)
get_task_by_title_pending(ts, title) ==
    LET hit == {i \in 1..Len(ts) : /\ lower(ts[i].title.str) = lower(title)
                                   /\ ts[i].status = PENDING}
    IN  IF hit = {} THEN 0 ELSE CHOOSE i \in hit : \A k \in hit : i <= k

(* get_task_by_title: position of the first task whose lowered title    *)
(* equals the lowered argument, 0 for None                               *)
get_task_by_title(ts, title) ==
    LET hit == {i \in 1..Len(ts) : lower(ts[i].title.str) = lower(title)}
    IN  IF hit = {} THEN 0 ELSE CHOOSE i \in hit : \A k \in hit : i <= k

(* Identifier resolution that falls back to the title when no task has *)
(* the parsed id                                                        *)
resolve_fallback(ts, identifier) ==
    CASE type(identifier) = "int" -> get_task_by_id(ts, identifier)
      [] type(identifier) = "str" ->
           IF identifier.str \in IntStrings /\ get_task_by_id(ts, PyInt(int(identifier.str))) # 0
           THEN get_task_by_id(ts, PyInt(int(identifier.str)))
           ELSE get_task_by_title(ts, identifier.str)
      [] OTHER -> 0

(* Identifier resolution that tries the title before int() *)
resolve_title_first(ts, identifier) ==
    CASE type(identifier) = "int" -> get_task_by_id(ts, identifier)
      [] type(identifier) = "str" ->
           IF get_task_by_title(ts, identifier.str) # 0
           THEN get_task_by_title(ts, identifier.str)
           ELSE IF identifier.str \in IntStrings
                THEN get_task_by_id(ts, PyInt(int(identifier.str)))
                ELSE 0
      [] OTHER -> 0

(* The identifier resolution of mark_task_completed *)
resolve(ts, identifier) ==
    CASE type(identifier) = "int" -> get_task_by_id(ts, identifier)
      [] type(identifier) = "str" ->
           IF identifier.str \in IntStrings
           THEN get_task_by_id(ts, PyInt(int(identifier.str)))
           ELSE get_task_by_title(ts, identifier.str)
      [] OTHER -> 0

----------------------------------------------------------------------------
(* Backing files a store may be constructed on, besides those it writes *)

(* a JSON document whose top level is a list *)
TopLevelList == JsonFile(JArray(<<>>))

(* an entry of the tasks list that is not a mapping *)
EntryNotMapping ==
    JsonFile(JObject([next_id |-> JNumber(2), tasks |-> JArray(<<JString("a")>>)]))

(* a task mapping without a title, after a complete one; next_id present *)
MissingTitle ==
    JsonFile(JObject([next_id |-> JNumber(5),
                      tasks |-> JArray(<<
                          to_dict([Task(PyStr("a"), PyStr(""), PyStr("medium"), None, 0)
                                       EXCEPT !.id = PyInt(1)]),
                          JObject([id |-> JNumber(2), description |-> JString("d")])>>)]))

(* a mapping with neither next_id nor tasks *)
EmptyMapping == JsonFile(JObject([k \in {} |-> JNull]))

(* the mapping of TestTask.test_task_from_dict: status completed, no       *)
(* completed_at and no created_at key                                      *)
PartialTask ==
    JsonFile(JObject([next_id |-> JNumber(2),
                      tasks |-> JArray(<<
                          JObject([id |-> JNumber(1),
                                   title |-> JString("a"),
                                   description |-> JString("d"),
                                   priority |-> JString("high"),
                                   due_date |-> JString("2024-12-31"),
                                   status |-> JString("completed")])>>)]))

InitialFiles ==
    {NoFile, Unreadable, Malformed, TopLevelList, EntryNotMapping,
     MissingTitle, EmptyMapping, PartialTask}

(* Arguments of add_task *)
AddInputs ==
    {[title |-> PyStr("A"), description |-> PyStr("d"), priority |-> PyStr("high"), due_date |-> PyStr("2024-12-31")],
     [title |-> PyStr("2"), description |-> PyStr(""), priority |-> PyStr("low"), due_date |-> None]}

(* Arguments of add_task whose title is empty or only whitespace *)
BlankInputs ==
    {[title |-> PyStr(""), description |-> PyStr(""), priority |-> PyStr("medium"), due_date |-> None],
     [title |-> PyStr(" "), description |-> PyStr("d"), priority |-> PyStr("low"), due_date |-> None]}

(* Arguments of list_tasks and count_tasks other than None *)
StatusFilters == {PENDING, COMPLETED, PyStr("archived"), PyStr("")}

(* Arguments of get_task_by_title and get_task_by_id *)
TitleQueries == {"A", "a", "2", "zz", ""}
IdQueries == 0..(MaxTasks + 2)

(* Arguments of mark_task_completed: ints, strings and None *)
Identifiers ==
    {PyInt(n) : n \in 1..MaxTasks}
    \cup {PyStr(s) : s \in {"2", "02", "a"}}
    \cup {None}

----------------------------------------------------------------------------
(* The store *)

(* The record kept of a call: its name, argument, return value, the      *)
(* exception it raised (""), whether it wrote the file, and whether it    *)
(* repeated an earlier effect: for add, the id it returned had been       *)
(* returned by an earlier add; for mark_completed, the task it found was  *)
(* already completed                                                      *)
Outcome(name, arg, ret, raised, saved, again) ==
    [name |-> name, arg |-> arg, ret |-> ret, raised |-> raised,
     saved |-> saved, again |-> again]

(* No second instance has been constructed *)
NoStore == [kind |-> "none"]

(* ToDoListManager.__init__(data_file) on the current content f of the file *)
Construct(f) ==
    LET r == load_tasks(f, now)
    IN  /\ constructed' = (r.raised = "")
        /\ tasks' = r.tasks
        /\ next_id' = r.next_id
        /\ op' = Outcome("init", None, None, r.raised, FALSE, FALSE)
        /\ phase' = IF r.tasks = <<>> /\ r.next_id = 1 THEN "fresh" ELSE "loaded"
        /\ issued' = {}

Init ==
    /\ file \in InitialFiles
    /\ now = 0
    /\ LET r == load_tasks(file, 0)
       IN  /\ constructed = (r.raised = "")
           /\ tasks = r.tasks
           /\ next_id = r.next_id
           /\ op = Outcome("init", None, None, r.raised, FALSE, FALSE)
           /\ phase = IF r.tasks = <<>> /\ r.next_id = 1 THEN "fresh" ELSE "loaded"
    /\ issued = {}
    /\ other = NoStore

(* A fresh ToDoListManager constructed on the same file *)
NewStore ==
    /\ Construct(file)
    /\ UNCHANGED <<file, now, other>>

(* add_task that does not advance next_id *)
add_task_noincrement(title, description, priority, due_date) ==
    /\ constructed
    /\ Len(tasks) < MaxTasks
    /\ LET task == [Task(title, description, priority, due_date, now)
                        EXCEPT !.id = PyInt(next_id)]
       IN  /\ next_id' = next_id
           /\ tasks' = Append(tasks, task)
           /\ file' = save_tasks(next_id', tasks')
           /\ op' = Outcome("add", None, task, "", TRUE, next_id \in issued)
    /\ phase' = CASE phase = "cleared" -> "first_add"
                  [] phase = "first_add" -> "later_add"
                  [] OTHER -> phase
    /\ issued' = issued \cup {next_id}
    /\ UNCHANGED <<other, constructed, now>>

(* add_task that inserts the new task in front of the others *)
add_task_front(title, description, priority, due_date) ==
    /\ constructed
    /\ Len(tasks) < MaxTasks
    /\ LET task == [Task(title, description, priority, due_date, now)
                        EXCEPT !.id = PyInt(next_id)]
       IN  /\ next_id' = next_id + 1
           /\ tasks' = <<task>> \o tasks
           /\ file' = save_tasks(next_id', tasks')
           /\ op' = Outcome("add", None, task, "", TRUE, next_id \in issued)
    /\ phase' = CASE phase = "cleared" -> "first_add"
                  [] phase = "first_add" -> "later_add"
                  [] OTHER -> phase
    /\ issued' = issued \cup {next_id}
    /\ UNCHANGED <<other, constructed, now>>

(* add_task that writes the file before it appends the task *)
add_task_save_first(title, description, priority, due_date) ==
    /\ constructed
    /\ Len(tasks) < MaxTasks
    /\ LET task == [Task(title, description, priority, due_date, now)
                        EXCEPT !.id = PyInt(next_id)]
       IN  /\ next_id' = next_id + 1
           /\ tasks' = Append(tasks, task)
           /\ file' = save_tasks(next_id, tasks)
           /\ op' = Outcome("add", None, task, "", TRUE, next_id \in issued)
    /\ phase' = CASE phase = "cleared" -> "first_add"
                  [] phase = "first_add" -> "later_add"
                  [] OTHER -> phase
    /\ issued' = issued \cup {next_id}
    /\ UNCHANGED <<other, constructed, now>>

(* add_task(title, description, priority, due_date) *)
add_task(title, description, priority, due_date) ==
    /\ constructed
    /\ Len(tasks) < MaxTasks
    /\ LET task == [Task(title, description, priority, due_date, now)
                        EXCEPT !.id = PyInt(next_id)]
       IN  /\ next_id' = next_id + 1
           /\ tasks' = Append(tasks, task)
           /\ file' = save_tasks(next_id', tasks')
           /\ op' = Outcome("add", None, task, "", TRUE, next_id \in issued)
    /\ phase' = CASE phase = "cleared" -> "first_add"
                  [] phase = "first_add" -> "later_add"
                  [] OTHER -> phase
    /\ issued' = issued \cup {next_id}
    /\ UNCHANGED <<other, constructed, now>>

(* mark_task_completed that returns without calling save_tasks *)
mark_task_completed_nosave(identifier) ==
    /\ constructed
    /\ LET i == resolve(tasks, identifier)
       IN  IF i # 0
           THEN /\ tasks' = [tasks EXCEPT ![i] = Task_mark_completed(@, now)]
                /\ op' = Outcome("mark", identifier, PyBool(TRUE), "", FALSE,
                                 tasks[i].status = COMPLETED)
                /\ UNCHANGED file
           ELSE /\ op' = Outcome("mark", identifier, PyBool(FALSE), "", FALSE, FALSE)
                /\ UNCHANGED <<tasks, file>>
    /\ UNCHANGED <<other, constructed, next_id, now, phase, issued>>

(* mark_task_completed that consumes an id when it completes a task *)
mark_task_completed_bump(identifier) ==
    /\ constructed
    /\ LET i == resolve(tasks, identifier)
       IN  IF i # 0
           THEN /\ tasks' = [tasks EXCEPT ![i] = Task_mark_completed(@, now)]
                /\ next_id' = next_id + 1
                /\ file' = save_tasks(next_id', tasks')
                /\ op' = Outcome("mark", identifier, PyBool(TRUE), "", TRUE,
                                 tasks[i].status = COMPLETED)
           ELSE /\ op' = Outcome("mark", identifier, PyBool(FALSE), "", FALSE, FALSE)
                /\ UNCHANGED <<tasks, file, next_id>>
    /\ UNCHANGED <<other, constructed, now, phase, issued>>

(* mark_task_completed(identifier) *)
mark_task_completed(identifier) ==
    /\ constructed
    /\ LET i == resolve(tasks, identifier)
       IN  IF i # 0
           THEN /\ tasks' = [tasks EXCEPT ![i] = Task_mark_completed(@, now)]
                /\ file' = save_tasks(next_id, tasks')
                /\ op' = Outcome("mark", identifier, PyBool(TRUE), "", TRUE,
                                 tasks[i].status = COMPLETED)
           ELSE /\ op' = Outcome("mark", identifier, PyBool(FALSE), "", FALSE, FALSE)
                /\ UNCHANGED <<tasks, file>>
    /\ UNCHANGED <<other, constructed, next_id, now, phase, issued>>

(* clear_all_tasks that leaves next_id as it is *)
clear_all_tasks_keep_counter ==
    /\ constructed
    /\ tasks' = <<>>
    /\ next_id' = next_id
    /\ file' = save_tasks(next_id', tasks')
    /\ op' = Outcome("clear", None, None, "", TRUE, FALSE)
    /\ phase' = "cleared"
    /\ UNCHANGED <<other, constructed, now, issued>>

(* clear_all_tasks() *)
clear_all_tasks ==
    /\ constructed
    /\ tasks' = <<>>
    /\ next_id' = 1
    /\ file' = save_tasks(next_id', tasks')
    /\ op' = Outcome("clear", None, None, "", TRUE, FALSE)
    /\ phase' = "cleared"
    /\ UNCHANGED <<other, constructed, now, issued>>

(* save_tasks() called by the owner of the store *)
save ==
    /\ constructed
    /\ file' = save_tasks(next_id, tasks)
    /\ op' = Outcome("save", None, None, "", TRUE, FALSE)
    /\ UNCHANGED <<other, constructed, tasks, next_id, now, phase, issued>>

(* Time passes between two calls *)
Tick ==
    /\ now < MaxTime
    /\ now' = now + 1
    /\ UNCHANGED <<file, constructed, tasks, next_id, op, phase, issued, other>>

AddStep == \E a \in AddInputs : add_task(a.title, a.description, a.priority, a.due_date)
MarkStep == \E x \in Identifiers : mark_task_completed(x)

Next ==
    \/ AddStep
    \/ MarkStep
    \/ clear_all_tasks
    \/ save
    \/ NewStore
    \/ Tick

Spec == Init /\ [][Next]_vars

(* What is left in the backing file when save_tasks raises OSError: the   *)
(* old content when open(..., 'w') raises, truncated text when json.dump  *)
(* raises after the file was opened.                                      *)
WriteFailures(f) == {f, Malformed}

(* add_task that returns the task although save_tasks raised *)
add_task_swallow(title, description, priority, due_date) ==
    /\ constructed
    /\ Len(tasks) < MaxTasks
    /\ LET task == [Task(title, description, priority, due_date, now)
                        EXCEPT !.id = PyInt(next_id)]
       IN  /\ next_id' = next_id + 1
           /\ tasks' = Append(tasks, task)
           /\ file' \in WriteFailures(file)
           /\ op' = Outcome("add", None, task, "", FALSE, next_id \in issued)
    /\ phase' = CASE phase = "cleared" -> "first_add"
                  [] phase = "first_add" -> "later_add"
                  [] OTHER -> phase
    /\ issued' = issued \cup {next_id}
    /\ UNCHANGED <<other, constructed, now>>

(* add_task that takes the task back when save_tasks raises *)
add_task_rollback(title, description, priority, due_date) ==
    /\ constructed
    /\ Len(tasks) < MaxTasks
    /\ file' \in WriteFailures(file)
    /\ op' = Outcome("add", None, None, "OSError", FALSE, next_id \in issued)
    /\ UNCHANGED <<tasks, next_id, phase, issued>>
    /\ UNCHANGED <<other, constructed, now>>

(* add_task when save_tasks raises: the task is appended and the counter  *)
(* incremented before the write, the exception leaves add_task            *)
add_task_oserror(title, description, priority, due_date) ==
    /\ constructed
    /\ Len(tasks) < MaxTasks
    /\ LET task == [Task(title, description, priority, due_date, now)
                        EXCEPT !.id = PyInt(next_id)]
       IN  /\ next_id' = next_id + 1
           /\ tasks' = Append(tasks, task)
           /\ file' \in WriteFailures(file)
           /\ op' = Outcome("add", None, None, "OSError", FALSE, next_id \in issued)
    /\ phase' = CASE phase = "cleared" -> "first_add"
                  [] phase = "first_add" -> "later_add"
                  [] OTHER -> phase
    /\ issued' = issued \cup {next_id}
    /\ UNCHANGED <<other, constructed, now>>

(* mark_task_completed when save_tasks raises: the task is marked before  *)
(* the write; an identifier that resolves to no task writes nothing       *)
mark_task_completed_oserror(identifier) ==
    /\ constructed
    /\ LET i == resolve(tasks, identifier)
       IN  /\ i # 0
           /\ tasks' = [tasks EXCEPT ![i] = Task_mark_completed(@, now)]
           /\ file' \in WriteFailures(file)
           /\ op' = Outcome("mark", identifier, None, "OSError", FALSE,
                            tasks[i].status = COMPLETED)
    /\ UNCHANGED <<other, constructed, next_id, now, phase, issued>>

(* clear_all_tasks when save_tasks raises *)
clear_all_tasks_oserror ==
    /\ constructed
    /\ tasks' = <<>>
    /\ next_id' = 1
    /\ file' \in WriteFailures(file)
    /\ op' = Outcome("clear", None, None, "OSError", FALSE, FALSE)
    /\ phase' = "cleared"
    /\ UNCHANGED <<other, constructed, now, issued>>

AddFailStep ==
    \E a \in AddInputs : add_task_oserror(a.title, a.description, a.priority, a.due_date)

(* Arguments of mark_task_completed where writes may fail: an id, the      *)
(* decimal string of an id, a title no task has                            *)
IOIdentifiers == {PyInt(1), PyStr("2"), PyStr("zz")}

MarkIOStep == \E x \in IOIdentifiers : mark_task_completed(x)

MarkFailStep == \E x \in IOIdentifiers : mark_task_completed_oserror(x)

(* The store on a file system where any write may fail *)
NextIO ==
    \/ AddStep
    \/ MarkIOStep
    \/ clear_all_tasks
    \/ NewStore
    \/ AddFailStep
    \/ MarkFailStep
    \/ clear_all_tasks_oserror

SpecIO == Init /\ [][NextIO]_vars

(* A second ToDoListManager constructed on the same file while the first  *)
(* is kept; the caller goes on with the new one                            *)
SecondStore ==
    /\ constructed
    /\ other = NoStore
    /\ other' = [tasks |-> tasks, next_id |-> next_id, phase |-> phase, issued |-> issued]
    /\ Construct(file)
    /\ UNCHANGED <<file, now>>

(* The caller turns to the instance that was not in use *)
Switch ==
    /\ constructed
    /\ other # NoStore
    /\ tasks' = other.tasks
    /\ next_id' = other.next_id
    /\ phase' = other.phase
    /\ issued' = other.issued
    /\ other' = [tasks |-> tasks, next_id |-> next_id, phase |-> phase, issued |-> issued]
    /\ op' = Outcome("switch", None, None, "", FALSE, FALSE)
    /\ UNCHANGED <<file, constructed, now>>

(* Arguments of mark_task_completed with two instances: ids *)
TwoIdentifiers == {PyInt(1), PyInt(2)}

MarkTwoStep == \E x \in TwoIdentifiers : mark_task_completed(x)

(* Two store instances on one backing file, their calls interleaved *)
NextTwo ==
    \/ AddStep
    \/ MarkTwoStep
    \/ clear_all_tasks
    \/ SecondStore
    \/ Switch

SpecTwo == Init /\ [][NextTwo]_vars

(* save_tasks that replaces the file in one step (write aside, rename):   *)
(* a process stopped inside it leaves the old content                      *)
crash_in_save_atomic ==
    /\ constructed
    /\ constructed' = FALSE
    /\ file' = file
    /\ op' = Outcome("crash", None, None, "", FALSE, FALSE)
    /\ UNCHANGED <<other, tasks, next_id, now, phase, issued>>

(* The process stops inside save_tasks after open(..., 'w') has truncated  *)
(* the file and before json.dump has written all of it: the file holds a   *)
(* strict prefix of the document, the instance is gone (tasks and next_id  *)
(* keep what it held last, no call is made on it any more)                 *)
crash_in_save ==
    /\ constructed
    /\ constructed' = FALSE
    /\ file' = Malformed
    /\ op' = Outcome("crash", None, None, "", FALSE, FALSE)
    /\ UNCHANGED <<other, tasks, next_id, now, phase, issued>>

(* The store whose process may stop in the middle of a write *)
NextCrash ==
    \/ AddStep
    \/ MarkIOStep
    \/ clear_all_tasks
    \/ NewStore
    \/ crash_in_save

SpecCrash == Init /\ [][NextCrash]_vars

(* cli.main: one process per command, a store constructed in each *)

(* choices of --priority *)
PriorityChoices == {PyStr("low"), PyStr("medium"), PyStr("high")}

(* what print_colored is given by the clear command, after the mark *)
AlreadyEmpty == PyStr("To-do list is already empty.")
Cleared == PyStr("Cleared all tasks from the to-do list.")

(* Command lines of add: those of AddInputs, the default priority, and a   *)
(* priority that is not among the choices                                  *)
CliAddInputs ==
    AddInputs \cup
    {[title |-> PyStr("A"), description |-> PyStr(""), priority |-> PyStr("medium"), due_date |-> None],
     [title |-> PyStr("A"), description |-> PyStr(""), priority |-> PyStr("urgent"), due_date |-> None]}

(* Command lines of complete: argv holds strings *)
CliIdentifiers == {PyStr("1"), PyStr("2"), PyStr("a")}

(* The process ends before or in ToDoListManager(): parse_args exits, or   *)
(* __init__ raises outside the try of main                                 *)
cli_ends(name, arg, r, raised) ==
    /\ constructed' = FALSE
    /\ tasks' = r.tasks
    /\ next_id' = r.next_id
    /\ op' = Outcome(name, arg, None, raised, FALSE, FALSE)
    /\ phase' = IF r.tasks = <<>> /\ r.next_id = 1 THEN "fresh" ELSE "loaded"
    /\ issued' = {}
    /\ UNCHANGED <<file, now, other>>

(* main with the add command and no check of --priority *)
cli_add_unchecked(title, description, priority, due_date) ==
    LET r == load_tasks(file, now)
    IN  IF r.raised # ""
        THEN cli_ends("cli_add", priority, r, r.raised)
        ELSE /\ Len(r.tasks) < MaxTasks
             /\ LET task == [Task(title, description, priority, due_date, now)
                                 EXCEPT !.id = PyInt(r.next_id)]
                IN  /\ next_id' = r.next_id + 1
                    /\ tasks' = Append(r.tasks, task)
                    /\ file' = save_tasks(next_id', tasks')
                    /\ op' = Outcome("cli_add", priority, task, "", TRUE, FALSE)
             /\ constructed' = TRUE
             /\ phase' = IF r.tasks = <<>> /\ r.next_id = 1 THEN "fresh" ELSE "loaded"
             /\ issued' = {r.next_id}
             /\ UNCHANGED <<now, other>>

(* main with the add command: parse_args, ToDoListManager(), add_task *)
cli_add(title, description, priority, due_date) ==
    IF priority \notin PriorityChoices
    THEN cli_ends("cli_add", priority, [tasks |-> <<>>, next_id |-> 1], "SystemExit")
    ELSE LET r == load_tasks(file, now)
         IN  IF r.raised # ""
             THEN cli_ends("cli_add", priority, r, r.raised)
             ELSE /\ Len(r.tasks) < MaxTasks
                  /\ LET task == [Task(title, description, priority, due_date, now)
                                      EXCEPT !.id = PyInt(r.next_id)]
                     IN  /\ next_id' = r.next_id + 1
                         /\ tasks' = Append(r.tasks, task)
                         /\ file' = save_tasks(next_id', tasks')
                         /\ op' = Outcome("cli_add", priority, task, "", TRUE, FALSE)
                  /\ constructed' = TRUE
                  /\ phase' = IF r.tasks = <<>> /\ r.next_id = 1 THEN "fresh" ELSE "loaded"
                  /\ issued' = {r.next_id}
                  /\ UNCHANGED <<now, other>>

(* main with the complete command *)
cli_complete(identifier) ==
    LET r == load_tasks(file, now)
    IN  IF r.raised # ""
        THEN cli_ends("cli_complete", identifier, r, r.raised)
        ELSE /\ LET i == resolve(r.tasks, identifier)
                IN  IF i # 0
                    THEN /\ tasks' = [r.tasks EXCEPT ![i] = Task_mark_completed(@, now)]
                         /\ file' = save_tasks(r.next_id, tasks')
                         /\ op' = Outcome("cli_complete", identifier, PyBool(TRUE), "", TRUE,
                                          r.tasks[i].status = COMPLETED)
                    ELSE /\ tasks' = r.tasks
                         /\ file' = file
                         /\ op' = Outcome("cli_complete", identifier, PyBool(FALSE), "",
                                          FALSE, FALSE)
             /\ constructed' = TRUE
             /\ next_id' = r.next_id
             /\ phase' = IF r.tasks = <<>> /\ r.next_id = 1 THEN "fresh" ELSE "loaded"
             /\ issued' = {}
             /\ UNCHANGED <<now, other>>

(* main with the clear command and no is_empty() test *)
cli_clear_always ==
    LET r == load_tasks(file, now)
    IN  IF r.raised # ""
        THEN cli_ends("cli_clear", None, r, r.raised)
        ELSE /\ tasks' = <<>>
             /\ next_id' = 1
             /\ file' = save_tasks(next_id', tasks')
             /\ op' = Outcome("cli_clear", None, Cleared, "", TRUE, FALSE)
             /\ phase' = "cleared"
             /\ constructed' = TRUE
             /\ issued' = {}
             /\ UNCHANGED <<now, other>>

(* main with the clear command *)
cli_clear ==
    LET r == load_tasks(file, now)
    IN  IF r.raised # ""
        THEN cli_ends("cli_clear", None, r, r.raised)
        ELSE /\ IF is_empty(r.tasks)
                THEN /\ tasks' = r.tasks
                     /\ next_id' = r.next_id
                     /\ file' = file
                     /\ op' = Outcome("cli_clear", None, AlreadyEmpty, "", FALSE, FALSE)
                     /\ phase' = IF r.next_id = 1 THEN "fresh" ELSE "loaded"
                ELSE /\ tasks' = <<>>
                     /\ next_id' = 1
                     /\ file' = save_tasks(next_id', tasks')
                     /\ op' = Outcome("cli_clear", None, Cleared, "", TRUE, FALSE)
                     /\ phase' = "cleared"
             /\ constructed' = TRUE
             /\ issued' = {}
             /\ UNCHANGED <<now, other>>

CliAddStep ==
    \E a \in CliAddInputs : cli_add(a.title, a.description, a.priority, a.due_date)

CliCompleteStep == \E x \in CliIdentifiers : cli_complete(x)

(* Successive runs of the command line on one backing file *)
NextCli ==
    \/ CliAddStep
    \/ CliCompleteStep
    \/ cli_clear

SpecCli == Init /\ [][NextCli]_vars

(* The store with callers that also pass blank titles to add_task *)
AddBlankStep ==
    \E a \in BlankInputs : add_task(a.title, a.description, a.priority, a.due_date)

NextBlank ==
    \/ AddBlankStep
    \/ AddStep
    \/ MarkStep
    \/ clear_all_tasks
    \/ NewStore

SpecBlank == Init /\ [][NextBlank]_vars

----------------------------------------------------------------------------
(* Helpers of the properties *)

(* the step is a call of operation n: only Tick keeps op, and it moves now *)
Called(n) == op'.name = n /\ now' = now

(* the ids of the held tasks are pairwise distinct *)
HeldIdsDistinct == \A i, k \in 1..Len(tasks) : tasks[i].id = tasks[k].id => i = k

(* str(n) for the ids of the model *)
str(n) ==
    CASE n = 1 -> "1"
      [] n = 2 -> "2"
      [] n = 3 -> "3"
      [] n = 4 -> "4"
      [] OTHER -> "5"

(* u and v are the same text up to letter case *)
CaseVariant(u, v) == u = v \/ {u, v} = {"a", "A"} \/ {u, v} = {"zz", "ZZ"}

(* sub is all with some elements left out, order kept *)
OrderPreserved(sub, all) ==
    \E f \in [1..Len(sub) -> 1..Len(all)] :
        /\ \A i, k \in 1..Len(sub) : i < k => f[i] < f[k]
        /\ \A i \in 1..Len(sub) : all[f[i]] = sub[i]

----------------------------------------------------------------------------
(* C1 (as stated): over add and clear calls on one store instance, the ids *)
(* returned by add are strictly increasing, start at 1 on a store that     *)
(* started empty, have no gaps, and no id is assigned twice over the       *)
(* lifetime of the instance, also not after a clear.                       *)
C1_IdsNeverReused ==
    [][Called("add") =>
        /\ \A i \in issued : op'.ret.id.int > i
        /\ (issued # {} => (op'.ret.id.int - 1) \in issued)
        /\ (issued = {} /\ phase # "loaded" => op'.ret.id = PyInt(1))]_vars

(* C1 (amended): every add returns the next_id the store had before the    *)
(* call and leaves next_id one higher, so the ids returned between two     *)
(* clears are consecutive and increasing; the first add after a clear      *)
(* returns 1 again, whatever was assigned before; and the tasks held at    *)
(* one time have pairwise distinct ids.                                    *)
C1_IdsConsecutiveBetweenClears ==
    /\ [](constructed => HeldIdsDistinct)
    /\ [][Called("add") =>
            /\ op'.ret.id = PyInt(next_id)
            /\ next_id' = next_id + 1
            /\ tasks'[Len(tasks')] = op'.ret
            /\ (phase = "cleared" => op'.ret.id = PyInt(1))]_vars

(* an id assigned before a clear is assigned again after it *)
C1_Witness ==
    /\ op.name = "add"
    /\ op.again
    /\ phase = "first_add"
    /\ op.ret.id = PyInt(1)
    /\ 1 \in issued

(* C2: clear leaves the store with is_empty() true, count() 0 and next_id  *)
(* 1, and the first add after the clear returns a task with id 1.          *)
C2_ClearResets ==
    /\ [][Called("clear") =>
            /\ is_empty(tasks')
            /\ count_tasks(tasks', None) = 0
            /\ next_id' = 1]_vars
    /\ [][(Called("add") /\ phase = "cleared") => op'.ret.id = PyInt(1)]_vars

(* the first add after a clear of a store that had assigned ids *)
C2_Witness ==
    /\ op.name = "add"
    /\ phase = "first_add"
    /\ Len(tasks) = 1
    /\ tasks[1].id = PyInt(1)
    /\ next_id = 2
    /\ issued # {}

(* C3: after a save, a fresh store constructed on the same file holds the  *)
(* same tasks in the same order, equal in all eight fields, and the same   *)
(* next_id.                                                                *)
C3_RoundTrip ==
    [][(Called("init") /\ constructed /\ op.saved) =>
        /\ constructed'
        /\ next_id' = next_id
        /\ tasks' = tasks]_vars

(* a store loaded from a saved file with a completed and a pending task *)
C3_Witness ==
    /\ op.name = "init"
    /\ constructed
    /\ Len(tasks) = 2
    /\ file = save_tasks(next_id, tasks)
    /\ \E i, k \in 1..2 : /\ tasks[i].status = COMPLETED
                          /\ tasks[i].completed_at # None
                          /\ tasks[k].status = PENDING
                          /\ tasks[k].due_date # None

(* C4: after every completed add, successful mark_completed or clear, the  *)
(* backing file is the serialization of the in-memory next_id and task     *)
(* list.                                                                   *)
C4_FileMatchesMemory ==
    (constructed /\ (op.name \in {"add", "clear"}
                     \/ (op.name = "mark" /\ op.ret = PyBool(TRUE))))
        => file = save_tasks(next_id, tasks)

(* a successful mark_completed on a store of two tasks *)
C4_Witness ==
    /\ op.name = "mark"
    /\ op.ret = PyBool(TRUE)
    /\ Len(tasks) = 2
    /\ tasks[2].status = COMPLETED
    /\ file = save_tasks(next_id, tasks)

(* The held task at position i is the one the claim C5 says identifier x  *)
(* names: x is its id, the decimal string of its id, or a case variant of  *)
(* its title when that title does not parse as an integer and no earlier   *)
(* task has the same title up to case.                                     *)
Names(x, i) ==
    \/ /\ type(x) = "int"
       /\ tasks[i].id = x
    \/ /\ type(x) = "str"
       /\ type(tasks[i].id) = "int"
       /\ x.str = str(tasks[i].id.int)
    \/ /\ type(x) = "str"
       /\ CaseVariant(x.str, tasks[i].title.str)
       /\ tasks[i].title.str \notin IntStrings
       /\ \A k \in 1..(i - 1) : ~CaseVariant(tasks[k].title.str, tasks[i].title.str)

(* C5: mark_completed by the id of a held task, by the decimal string of   *)
(* that id, or by a case variant of its title (first match, title not an   *)
(* integer) returns true and sets the status of that task to completed.    *)
C5_MarkLocatesTask ==
    [][Called("mark") =>
          \A i \in 1..Len(tasks) :
              Names(op'.arg, i) =>
                  /\ op'.ret = PyBool(TRUE)
                  /\ tasks'[i].status = COMPLETED]_vars

(* the second task completed through a title written in the other case *)
C5_Witness ==
    /\ op.name = "mark"
    /\ op.arg = PyStr("a")
    /\ op.ret = PyBool(TRUE)
    /\ Len(tasks) = 2
    /\ tasks[1].title = PyStr("2")
    /\ tasks[1].status = PENDING
    /\ tasks[2].title = PyStr("A")
    /\ tasks[2].status = COMPLETED

(* Identifier x matches no held task: an id no task has, a numeric string  *)
(* whose value is the id of no task, a title no task has up to case, or a  *)
(* value that is neither an integer nor a string.                          *)
Unknown(x) ==
    CASE type(x) = "int" -> \A i \in 1..Len(tasks) : tasks[i].id # x
      [] type(x) = "str" ->
           IF x.str \in IntStrings
           THEN \A i \in 1..Len(tasks) : tasks[i].id # PyInt(int(x.str))
           ELSE \A i \in 1..Len(tasks) : ~CaseVariant(x.str, tasks[i].title.str)
      [] OTHER -> TRUE

(* C6: mark_completed with an identifier that matches no held task returns *)
(* false, raises nothing, leaves the task list and next_id unchanged and   *)
(* does not write the backing file.                                        *)
C6_MarkUnknown ==
    [][(Called("mark") /\ Unknown(op'.arg)) =>
          /\ op'.ret = PyBool(FALSE)
          /\ op'.raised = ""
          /\ ~op'.saved
          /\ UNCHANGED <<tasks, next_id, file>>]_vars

(* a numeric string that is the id of no task but the title of one *)
C6_Witness ==
    /\ op.name = "mark"
    /\ op.arg = PyStr("2")
    /\ op.ret = PyBool(FALSE)
    /\ Len(tasks) = 1
    /\ tasks[1].title = PyStr("2")
    /\ tasks[1].status = PENDING

(* C7: list("pending") and list("completed") are disjoint, each keeps the  *)
(* insertion order, together they hold exactly the tasks of list(None),    *)
(* and count() = count("pending") + count("completed").                    *)
C7_StatusPartition ==
    constructed =>
        LET all == list_tasks(tasks, None)
            pending == list_tasks(tasks, PENDING)
            completed == list_tasks(tasks, COMPLETED)
        IN  /\ \A i \in 1..Len(pending) : \A k \in 1..Len(completed) : pending[i] # completed[k]
            /\ OrderPreserved(pending, all)
            /\ OrderPreserved(completed, all)
            /\ \A i \in 1..Len(all) :
                   \/ \E k \in 1..Len(pending) : pending[k] = all[i]
                   \/ \E k \in 1..Len(completed) : completed[k] = all[i]
            /\ Len(pending) + Len(completed) = Len(all)
            /\ count_tasks(tasks, None)
                   = count_tasks(tasks, PENDING) + count_tasks(tasks, COMPLETED)

(* a store holding a completed task followed by a pending one *)
C7_Witness ==
    /\ constructed
    /\ Len(tasks) = 2
    /\ list_tasks(tasks, COMPLETED) = <<tasks[1]>>
    /\ list_tasks(tasks, PENDING) = <<tasks[2]>>

(* C8: every held task has completed_at non-null if and only if its status *)
(* is completed, in every state reached by construction (loading the file  *)
(* included), add, mark_completed and clear.                               *)
C8_CompletedAtIffCompleted ==
    constructed =>
        \A i \in 1..Len(tasks) :
            (tasks[i].completed_at # None) <=> (tasks[i].status = COMPLETED)

(* The file is one of the two cases of C9: malformed text, or a document   *)
(* whose tasks are mappings of which one has no title.                     *)
MalformedOrUntitled(f) ==
    \/ f.kind = "malformed"
    \/ /\ f.kind = "json"
       /\ kind(f.doc) = "object"
       /\ "tasks" \in DOMAIN f.doc.object
       /\ kind(f.doc.object["tasks"]) = "array"
       /\ LET l == f.doc.object["tasks"].array
          IN  /\ \A i \in 1..Len(l) : kind(l[i]) = "object"
              /\ \E i \in 1..Len(l) : "title" \notin DOMAIN l[i].object

(* C9: constructing a store on a file with malformed text, or with a task  *)
(* mapping without a title, raises nothing and yields an empty task list   *)
(* with next_id 1, whatever next_id the file holds.                        *)
C9_CorruptFileStartsFresh ==
    (op.name = "init" /\ MalformedOrUntitled(file)) =>
        /\ constructed
        /\ op.raised = ""
        /\ tasks = <<>>
        /\ next_id = 1

(* a store constructed on the file whose second task has no title and     *)
(* whose next_id is 5                                                      *)
C9_Witness ==
    /\ op.name = "init"
    /\ file = MissingTitle
    /\ file.doc.object["next_id"] = JNumber(5)
    /\ constructed
    /\ tasks = <<>>
    /\ next_id = 1

(* C10: for every content of an existing backing file, construction        *)
(* completes without error and either reproduces the state of the file or  *)
(* starts empty with next_id 1.                                            *)
C10_LoadNeverRaises ==
    op.name = "init" =>
        /\ op.raised = ""
        /\ constructed

(* C11: mark_completed on a task that is already completed returns true,  *)
(* keeps its status completed, replaces completed_at with the current     *)
(* time and persists, as a first completion does.                         *)
C11_RemarkRestamps ==
    [][Called("mark") =>
          \A i \in 1..Len(tasks) :
              (Names(op'.arg, i) /\ tasks[i].status = COMPLETED) =>
                  /\ op'.ret = PyBool(TRUE)
                  /\ op'.raised = ""
                  /\ tasks'[i].status = COMPLETED
                  /\ tasks'[i].completed_at = PyStr(isoformat(now))
                  /\ op'.saved
                  /\ file' = save_tasks(next_id', tasks')]_vars

(* a task added and completed at time 0, completed again at time 1 *)
C11_Witness ==
    /\ op.name = "mark"
    /\ op.again
    /\ op.ret = PyBool(TRUE)
    /\ now = 1
    /\ Len(tasks) = 1
    /\ tasks[1].title = PyStr("A")
    /\ tasks[1].created_at = PyStr(isoformat(0))
    /\ tasks[1].completed_at = PyStr(isoformat(1))

(* C12 (as stated): once the completed_at of a task is non-null, no store  *)
(* operation changes its value.                                            *)
C12_CompletedAtSetOnce ==
    [][\A i \in 1..Len(tasks) :
          (i <= Len(tasks') /\ tasks[i].completed_at # None) =>
              tasks'[i].completed_at = tasks[i].completed_at]_vars

(* identifier x resolves to the task at position i: an int or a numeral   *)
(* by id, any other string by the first title equal to it ignoring case   *)
Resolves(x, i) ==
    CASE type(x) = "int" -> tasks[i].id = x
      [] type(x) = "str" ->
           IF x.str \in IntStrings
           THEN tasks[i].id = PyInt(int(x.str))
           ELSE /\ CaseVariant(x.str, tasks[i].title.str)
                /\ \A k \in 1..(i - 1) : ~CaseVariant(x.str, tasks[k].title.str)
      [] OTHER -> FALSE

(* C12 (amended): completed_at is null when a task is added; a            *)
(* mark_completed that resolves to the task sets it to the time of that    *)
(* call, also when it was set before; every other step leaves the         *)
(* completed_at of every held task as it was.                             *)
C12_CompletedAtOnlyByMark ==
    /\ [][Called("add") => tasks'[Len(tasks')].completed_at = None]_vars
    /\ [][\A i \in 1..Len(tasks) :
            i <= Len(tasks') =>
                IF Called("mark") /\ Resolves(op'.arg, i)
                THEN tasks'[i].completed_at = PyStr(isoformat(now))
                ELSE tasks'[i].completed_at = tasks[i].completed_at]_vars

(* the first task completed a second time, at time 1, beside a task that  *)
(* was never completed                                                    *)
C12_Witness ==
    /\ op.name = "mark"
    /\ op.again
    /\ Len(tasks) = 2
    /\ tasks[1].title = PyStr("A")
    /\ tasks[1].created_at = PyStr(isoformat(0))
    /\ tasks[1].completed_at = PyStr(isoformat(1))
    /\ tasks[2].status = PENDING
    /\ tasks[2].completed_at = None

(* C13: for every status_filter that is given (anything but None, the      *)
(* empty string included), list returns exactly the held tasks whose       *)
(* status equals it, in insertion order, and count their number.           *)
C13_FilterExact ==
    constructed =>
        \A f \in StatusFilters :
            /\ list_tasks(tasks, f) = SelectSeq(tasks, LAMBDA task : task.status = f)
            /\ count_tasks(tasks, f) = Len(SelectSeq(tasks, LAMBDA task : task.status = f))

(* C14: get_by_title(t) returns the earliest-inserted held task whose      *)
(* title equals t ignoring case (the whole title, not a part of it) and    *)
(* absent when there is none; get_by_id(n) returns the held task with id n *)
(* or absent.                                                              *)
C14_Lookups ==
    constructed =>
        /\ \A t \in TitleQueries :
              LET r == get_task_by_title(tasks, t)
                  matches == {i \in 1..Len(tasks) : CaseVariant(t, tasks[i].title.str)}
              IN  IF matches = {} THEN r = 0
                  ELSE r \in matches /\ \A k \in matches : r <= k
        /\ \A n \in IdQueries :
              LET r == get_task_by_id(tasks, PyInt(n))
              IN  IF \A i \in 1..Len(tasks) : tasks[i].id # PyInt(n) THEN r = 0
                  ELSE r \in 1..Len(tasks) /\ tasks[r].id = PyInt(n)

(* two tasks titled "a" and "A": the title lookup returns the first, the   *)
(* id lookup the second, a part of the title nothing                       *)
C14_Witness ==
    /\ constructed
    /\ Len(tasks) = 2
    /\ tasks[1].title = PyStr("a")
    /\ tasks[2].title = PyStr("A")
    /\ get_task_by_title(tasks, "A") = 1
    /\ get_task_by_id(tasks, tasks[2].id) = 2
    /\ get_task_by_title(tasks, "") = 0
    /\ get_task_by_id(tasks, PyInt(0)) = 0

C17_IdsCountUp ==
    (constructed /\ phase # "loaded") =>
        /\ \A i \in 1..Len(tasks) : tasks[i].id = PyInt(i)
        /\ next_id = Len(tasks) + 1
        /\ op.name = "add" => op.ret.id = PyInt(Len(tasks))

(* after a clear: add, a completion of the first task, then a second add  *)
(* that returned id 2                                                     *)
C17_Witness ==
    /\ op.name = "add"
    /\ phase = "later_add"
    /\ Len(tasks) = 2
    /\ tasks[1].status = COMPLETED
    /\ tasks[1].id = PyInt(1)
    /\ op.ret.id = PyInt(2)
    /\ tasks[2].id = PyInt(2)
    /\ next_id = 3

(* C18: next_id is 1 for a store constructed with no backing file; each   *)
(* add raises it by exactly 1; mark_completed leaves it unchanged; the    *)
(* only step that lowers it is clear, which sets it to 1.                 *)
C18_CounterMoves ==
    /\ []((op.name = "init" /\ file = NoFile) => next_id = 1)
    /\ [][/\ Called("add") => next_id' = next_id + 1
          /\ Called("mark") => next_id' = next_id
          /\ next_id' < next_id => (Called("clear") /\ next_id' = 1)]_vars

(* a clear by an instance that had issued ids 1 and 2 *)
C18_Witness ==
    /\ op.name = "clear"
    /\ issued = {1, 2}
    /\ next_id = 1
    /\ tasks = <<>>

(* str.strip() on the titles of the model *)
strip(s) == IF s = " " THEN "" ELSE s

(* C19: add with an empty or whitespace-only title fails and adds no      *)
(* task, so every held task has a title that is not empty and not only    *)
(* whitespace.                                                            *)
C19_TitlesNonEmpty ==
    /\ \A i \in 1..Len(tasks) : strip(tasks[i].title.str) # ""
    /\ (op.name = "add" /\ strip(op.ret.title.str) = "") => op.raised # ""

(* C20: when the write of the backing file fails during add,              *)
(* mark_completed or clear (the call reached save_tasks and the file does  *)
(* not hold the state the call left in memory), the call ends with an      *)
(* error and returns nothing.                                              *)
C20_WriteFailurePropagates ==
    [][(/\ now' = now
        /\ \/ op'.name \in {"add", "clear"}
           \/ op'.name = "mark" /\ ~Unknown(op'.arg)
        /\ file' # save_tasks(next_id', tasks')) =>
          /\ op'.raised = "OSError"
          /\ op'.ret = None]_vars

(* an add on a new store whose write failed at open: the task is held in   *)
(* memory, no file exists, the caller got OSError                          *)
C20_Witness ==
    /\ op.name = "add"
    /\ op.raised = "OSError"
    /\ op.ret = None
    /\ file = NoFile
    /\ Len(tasks) = 1
    /\ next_id = 2

(* the mapping of a task is one of the entries of the file f *)
InFile(f, task) ==
    /\ f.kind = "json"
    /\ \E i \in 1..Len(f.doc.object["tasks"].array) :
          f.doc.object["tasks"].array[i] = to_dict(task)

(* C15: with two store instances on one backing file, after every call    *)
(* that saves the file holds exactly the next_id and the tasks of the      *)
(* instance that made the call; the other instance is not touched, and a   *)
(* task it holds that the saving instance does not hold is not in the      *)
(* file.                                                                   *)
C15_LastWriterWins ==
    [][(now' = now /\ op'.saved) =>
          /\ file' = save_tasks(next_id', tasks')
          /\ other' = other
          /\ other # NoStore =>
                \A j \in 1..Len(other.tasks) :
                    (\A i \in 1..Len(tasks') : tasks'[i] # other.tasks[j])
                        => ~InFile(file', other.tasks[j])]_vars

(* a lost update: both instances were constructed on the empty store, one  *)
(* added "2" and saved, then the other added "A" and saved; the file holds *)
(* only "A" although "2" was written to it before                          *)
C15_Witness ==
    /\ other # NoStore
    /\ op.name = "add"
    /\ op.saved
    /\ Len(tasks) = 1
    /\ tasks[1].title = PyStr("A")
    /\ Len(other.tasks) = 1
    /\ other.tasks[1].title = PyStr("2")
    /\ other.issued = {1}
    /\ issued = {1}
    /\ file = save_tasks(2, tasks)
    /\ ~InFile(file, other.tasks[1])

(* the argument of the call is text that int() parses *)
Numeral(x) == type(x) = "str" /\ x.str \in IntStrings

(* C23: a textual identifier that parses as an integer n is resolved by   *)
(* id only: mark_completed completes the task with id n if one is held    *)
(* and leaves the others alone; otherwise it returns false and changes     *)
(* nothing, also when a held task has that text as its title.              *)
C23_NumeralById ==
    [][(Called("mark") /\ Numeral(op'.arg)) =>
          LET n == PyInt(int(op'.arg.str))
          IN  IF \E i \in 1..Len(tasks) : tasks[i].id = n
              THEN /\ op'.ret = PyBool(TRUE)
                   /\ Len(tasks') = Len(tasks)
                   /\ \A i \in 1..Len(tasks) :
                         IF tasks[i].id = n
                         THEN tasks'[i].status = COMPLETED
                         ELSE tasks'[i] = tasks[i]
              ELSE /\ op'.ret = PyBool(FALSE)
                   /\ tasks' = tasks
                   /\ file' = file]_vars

(* the first task has title "2" and id 1, the second id 2:                 *)
(* mark_completed("2") completed the second and left the first pending     *)
C23_Witness ==
    /\ op.name = "mark"
    /\ op.arg = PyStr("2")
    /\ op.ret = PyBool(TRUE)
    /\ Len(tasks) = 2
    /\ tasks[1].title = PyStr("2")
    /\ tasks[1].id = PyInt(1)
    /\ tasks[1].status = PENDING
    /\ tasks[2].title = PyStr("A")
    /\ tasks[2].id = PyInt(2)
    /\ tasks[2].status = COMPLETED

(* C24: a successful mark_completed changes only status and completed_at   *)
(* of the task it resolved: number and order of the tasks, every other     *)
(* task, the other fields of the resolved task and next_id stay.           *)
C24_MarkFrame ==
    [][(Called("mark") /\ op'.ret = PyBool(TRUE)) =>
          /\ next_id' = next_id
          /\ Len(tasks') = Len(tasks)
          /\ \E i \in 1..Len(tasks) :
                /\ Resolves(op'.arg, i)
                /\ \A j \in 1..Len(tasks) : j # i => tasks'[j] = tasks[j]
                /\ tasks'[i] = [tasks[i] EXCEPT !.status = COMPLETED,
                                                !.completed_at = tasks'[i].completed_at]]_vars

(* the second of two tasks completed at time 1: it keeps the fields it was *)
(* added with at time 0, the first task is as it was added                 *)
C24_Witness ==
    /\ op.name = "mark"
    /\ op.ret = PyBool(TRUE)
    /\ ~op.again
    /\ now = 1
    /\ next_id = 3
    /\ Len(tasks) = 2
    /\ tasks[1] = [Task(PyStr("A"), PyStr("d"), PyStr("high"), PyStr("2024-12-31"), 0)
                       EXCEPT !.id = PyInt(1)]
    /\ tasks[2].id = PyInt(2)
    /\ tasks[2].title = PyStr("2")
    /\ tasks[2].created_at = PyStr(isoformat(0))
    /\ tasks[2].status = COMPLETED
    /\ tasks[2].completed_at = PyStr(isoformat(1))

(* C26: no step moves a held task from completed back to pending; a        *)
(* completed task stops being held as completed only in a clear.           *)
C26_StatusMonotonic ==
    [][\A i \in 1..Len(tasks) :
          (/\ tasks[i].status = COMPLETED
           /\ (i > Len(tasks') \/ tasks'[i].status # COMPLETED))
              => (Called("clear") /\ tasks' = <<>>)]_vars

(* a task completed at time 0 is still completed after a later add and a   *)
(* second mark_completed on it                                             *)
C26_Witness ==
    /\ op.name = "mark"
    /\ op.again
    /\ now = 1
    /\ Len(tasks) = 2
    /\ tasks[1].status = COMPLETED
    /\ tasks[1].title = PyStr("2")
    /\ tasks[1].created_at = PyStr(isoformat(0))
    /\ tasks[2].created_at = PyStr(isoformat(1))
    /\ tasks[2].status = PENDING

(* the task at position j has a title that an earlier task has too,        *)
(* ignoring case                                                           *)
LaterDuplicate(j) ==
    \E k \in 1..(j - 1) : CaseVariant(tasks[k].title.str, tasks[j].title.str)

(* C27: of two held tasks with titles equal ignoring case, mark_completed  *)
(* by the title resolves to the earlier one, also when it is completed     *)
(* already; the later one is left as it is by every mark_completed by      *)
(* title, and its status changes only in a mark_completed by id.           *)
C27_FirstDuplicateWins ==
    /\ [][(Called("mark") /\ type(op'.arg) = "str" /\ ~Numeral(op'.arg)) =>
             \A j \in 1..Len(tasks) :
                 /\ LaterDuplicate(j) => tasks'[j] = tasks[j]
                 /\ (~LaterDuplicate(j) /\ CaseVariant(op'.arg.str, tasks[j].title.str)) =>
                       /\ op'.ret = PyBool(TRUE)
                       /\ tasks'[j].status = COMPLETED]_vars
    /\ [][\A j \in 1..Len(tasks) :
             (/\ LaterDuplicate(j)
              /\ j <= Len(tasks')
              /\ tasks'[j].status # tasks[j].status)
                 => /\ Called("mark")
                    /\ (type(op'.arg) = "int" \/ Numeral(op'.arg))
                    /\ tasks[j].id = (IF type(op'.arg) = "int" THEN op'.arg
                                      ELSE PyInt(int(op'.arg.str)))]_vars

(* two tasks titled "A": mark_completed("a") found the first one already   *)
(* completed and completed it again, the second is still pending           *)
C27_Witness ==
    /\ op.name = "mark"
    /\ op.arg = PyStr("a")
    /\ op.ret = PyBool(TRUE)
    /\ op.again
    /\ Len(tasks) = 2
    /\ tasks[1].title = PyStr("A")
    /\ tasks[1].status = COMPLETED
    /\ tasks[2].title = PyStr("A")
    /\ tasks[2].status = PENDING

(* memory and backing file disagree *)
Divergent == file # save_tasks(next_id, tasks)

(* a call whose write failed left its effect in memory: the task appended  *)
(* and the counter advanced, the task completed, the list cleared; the     *)
(* file is as it was, or truncated                                         *)
FailedCallKeepsEffect ==
    (now' = now /\ op'.raised = "OSError") =>
        /\ op'.name = "add" =>
              /\ Len(tasks') = Len(tasks) + 1
              /\ SubSeq(tasks', 1, Len(tasks)) = tasks
              /\ tasks'[Len(tasks')].id = PyInt(next_id)
              /\ next_id' = next_id + 1
        /\ op'.name = "mark" =>
              /\ Len(tasks') = Len(tasks)
              /\ next_id' = next_id
              /\ \E i \in 1..Len(tasks) :
                    /\ Resolves(op'.arg, i)
                    /\ tasks'[i].status = COMPLETED
                    /\ tasks'[i].completed_at = PyStr(isoformat(now))
        /\ op'.name = "clear" => (tasks' = <<>> /\ next_id' = 1)
        /\ file' = file \/ file' = Malformed

(* C28 (as stated): a call whose write fails leaves its effect in memory   *)
(* and not in the file, and memory and file of that instance stay          *)
(* divergent until a later save succeeds.                                  *)
C28_DivergentUntilSave ==
    [][/\ FailedCallKeepsEffect
       /\ (Divergent /\ ~Divergent' /\ op'.name # "init") => op'.saved]_vars

(* C28 (amended): a call whose write fails leaves its effect in memory and *)
(* not in the file; the store never rolls memory back and the file changes *)
(* only in a save, so memory and file of that instance agree again only    *)
(* after a save that succeeds or after a later call has changed memory     *)
(* into what the file holds.                                               *)
C28_NoRollback ==
    [][/\ FailedCallKeepsEffect
       /\ (Divergent /\ ~Divergent' /\ op'.name # "init") =>
             (op'.saved \/ tasks' # tasks \/ next_id' # next_id)
       /\ file' # file =>
             \/ op'.saved /\ file' = save_tasks(next_id', tasks')
             \/ op'.raised = "OSError" /\ file' = Malformed]_vars

(* the second add failed at open: memory holds two tasks and next_id 3,    *)
(* the file still the one task and next_id 2 of the first add              *)
C28_Witness ==
    /\ op.name = "add"
    /\ op.raised = "OSError"
    /\ Len(tasks) = 2
    /\ next_id = 3
    /\ file = save_tasks(2, SubSeq(tasks, 1, 1))
    /\ Divergent

(* C25: save_tasks truncates the file and then writes it; a process that   *)
(* stops in between leaves a file that does not parse, whatever it held    *)
(* before, and the next store constructed on it raises nothing and starts  *)
(* empty with next_id 1: the tasks persisted before are lost.              *)
C25_CrashLosesTasks ==
    /\ [][op'.name = "crash" =>
             /\ file' = Malformed
             /\ LET r == load_tasks(file', now)
                IN  r.raised = "" /\ r.tasks = <<>> /\ r.next_id = 1]_vars
    /\ [][(op.name = "crash" /\ Called("init")) =>
             /\ constructed'
             /\ op'.raised = ""
             /\ tasks' = <<>>
             /\ next_id' = 1
             /\ file' = file]_vars

(* the process held two tasks, the first completed, when it stopped in     *)
(* save_tasks: the file that held them is unparseable                      *)
C25_Witness ==
    /\ op.name = "crash"
    /\ ~constructed
    /\ file = Malformed
    /\ Len(tasks) = 2
    /\ tasks[1].status = COMPLETED
    /\ next_id = 3
    /\ load_tasks(file, now).tasks = <<>>

(* C21: the clear command calls the store's clear if and only if the      *)
(* store it constructed is not empty; on an empty store it reports that    *)
(* the list is already empty, writes nothing and leaves next_id as loaded. *)
C21_CliClearGated ==
    [][(Called("cli_clear") /\ op'.raised = "") =>
          LET r == load_tasks(file, now)
          IN  IF r.tasks = <<>>
              THEN /\ op'.ret = AlreadyEmpty
                   /\ ~op'.saved
                   /\ file' = file
                   /\ next_id' = r.next_id
                   /\ tasks' = <<>>
              ELSE /\ op'.ret = Cleared
                   /\ op'.saved
                   /\ file' = save_tasks(1, <<>>)
                   /\ next_id' = 1
                   /\ tasks' = <<>>]_vars

(* the clear command run where no backing file exists: already empty, and  *)
(* still no file                                                           *)
C21_Witness ==
    /\ op.name = "cli_clear"
    /\ op.ret = AlreadyEmpty
    /\ file = NoFile
    /\ constructed
    /\ next_id = 1

(* C22: the add command with a priority outside low / medium / high exits  *)
(* before a store is constructed, so nothing is created or written; every  *)
(* task the command line holds or has written has one of the three.        *)
C22_CliPriorityChecked ==
    /\ [][(Called("cli_add") /\ op'.arg \notin PriorityChoices) =>
             /\ op'.raised = "SystemExit"
             /\ op'.ret = None
             /\ ~constructed'
             /\ file' = file]_vars
    /\ [](/\ \A i \in 1..Len(tasks) : tasks[i].priority \in PriorityChoices
          /\ LET r == load_tasks(file, now)
             IN  \A i \in 1..Len(r.tasks) : r.tasks[i].priority \in PriorityChoices)

(* add --priority urgent run on a file that holds one task: the process    *)
(* exited in parse_args, the file still holds that one task                *)
C22_Witness ==
    /\ op.name = "cli_add"
    /\ op.arg = PyStr("urgent")
    /\ op.raised = "SystemExit"
    /\ ~constructed
    /\ tasks = <<>>
    /\ Len(load_tasks(file, now).tasks) = 1
    /\ load_tasks(file, now).next_id = 2

====
